---- MODULE Spec2Model ----
(***************************************************************************)
(* A model of the BitTorrent leech client: the download session's block    *)
(* scheduler (downloadSession.py) and the peer sessions started by         *)
(* ProcessSingleTorrent (processSingleTorrent.py).                         *)
(*                                                                         *)
(* Every `await` of the source is a place where the running coroutine may  *)
(* be suspended and another task of the event loop may run, so a handler   *)
(* is one action per stretch of code between two awaits.                   *)
(***************************************************************************)
EXTENDS Integers, Sequences, FiniteSets, TLC

\* ------------------------------------------------------------------ bounds
NumPeers == 2
NumPieces == 2
BlocksPerPiece == 1
LastPieceLength == 100

\* ------------------------------------------------------- program constants
BLOCK_LENGTH == 16384

ATTEMPTS_TO_CONNECT_TO_PEER == 3

\* range(6) of the read loop of __startPeer
READ_LOOP_ITERATIONS == 6

\* the piece __requestPiece asks for
PIECE_INDEX == 69

HANDSHAKE_LENGTH == 68

Peers == 1..NumPeers
PieceIndexes == 0..(NumPieces - 1)
None == 0

\* The tasks of the event loop: one per peer session, and the driver that
\* asks the scheduler for the next request.
Driver == NumPeers + 1

Tasks == Peers \cup {Driver}

\* The torrent's layout as the metainfo scanner and the piece generator
\* supply it: every piece but the last has PieceLength bytes.
PieceLength == BlocksPerPiece * BLOCK_LENGTH

\* The length of piece i of a torrent of n pieces.
pieceLengthOf(n, i) == IF i = n - 1 THEN LastPieceLength ELSE PieceLength

pieceLength(i) == pieceLengthOf(NumPieces, i)

\* The torrents the peer sessions are run on: the scheduler's, one whose
\* last piece is piece PIECE_INDEX, and one with a piece after it.
SessionPieceCounts == {NumPieces, PIECE_INDEX + 1, PIECE_INDEX + 2}

BlockCount(i) == (pieceLength(i) + BLOCK_LENGTH - 1) \div BLOCK_LENGTH

Min(a, b) == IF a < b THEN a ELSE b

\* Block k of piece i: (pieceIndex, beginOffset, length).
Block(i, k) ==
    [pieceIndex |-> i,
     beginOffset |-> k * BLOCK_LENGTH,
     length |-> Min(BLOCK_LENGTH, pieceLength(i) - k * BLOCK_LENGTH)]

BlockIds == {<<i, k>> : i \in PieceIndexes, k \in 0..(BlocksPerPiece - 1)}

AllBlockIds == {id \in BlockIds : id[2] < BlockCount(id[1])}

AllBlocks == {Block(id[1], id[2]) : id \in AllBlockIds}

BlockId(b) == <<b.pieceIndex, b.beginOffset \div BLOCK_LENGTH>>

VARIABLES
    \* Peer state, one per peer of DownloadSession.__otherPeers
    isChokingMe,              \* peer -> BOOLEAN
    amInterestedInIt,         \* peer -> BOOLEAN
    activeConnection,         \* peer -> BOOLEAN (Peer.hasActiveConnection())
    availablePieces,          \* peer -> set of piece indexes whose bit is 1
    blocksRequestedFromPeer,  \* peer -> sequence of blocks
    \* Piece model
    isComplete,               \* block id -> BOOLEAN (Block.isComplete)
    isDownloadComplete,       \* piece index -> BOOLEAN (Piece.isDownloadComplete)
    downloadedPieces,         \* piece index -> BOOLEAN (__downloadedPieces)
    \* DownloadSession cursor
    currentPieceIndex,
    currentBlockIndex,
    \* One task per peer session: where its coroutine is suspended
    task,
    \* History: every call of cancelRequestsToOtherPeers that has ended so
    \* far ended as CancelDone describes
    cancelsDone,
    \* ProcessSingleTorrent: the peer sessions of __peerCommunication
    pieceCount,               \* the torrent's piece count, as the sessions see it
    session,                  \* peer -> where __startPeer is, and what it did
    mainTask,                 \* __peerCommunication: "running", "raised", "finished"
    \* The call in progress of one of the helpers that work on bytes alone
    \* (__attemptToReadBytes, scanTrackerResponse, getMessageContent)
    call

schedVars == <<isChokingMe, amInterestedInIt, activeConnection, availablePieces,
               blocksRequestedFromPeer, isComplete, isDownloadComplete,
               downloadedPieces, currentPieceIndex, currentBlockIndex, task,
               cancelsDone>>

sessVars == <<pieceCount, session, mainTask>>

vars == <<schedVars, sessVars, call>>

Idle == [pc |-> "idle"]

\* No helper call in progress.
NoCall == [op |-> "none"]

InitSched ==
    /\ isChokingMe = [p \in Peers |-> TRUE]
    /\ amInterestedInIt = [p \in Peers |-> FALSE]
    /\ activeConnection = [p \in Peers |-> FALSE]
    /\ availablePieces = [p \in Peers |-> {}]
    /\ blocksRequestedFromPeer = [p \in Peers |-> <<>>]
    /\ isComplete = [id \in AllBlockIds |-> FALSE]
    /\ isDownloadComplete = [i \in PieceIndexes |-> FALSE]
    /\ downloadedPieces = [i \in PieceIndexes |-> FALSE]
    /\ currentPieceIndex = 0
    /\ currentBlockIndex = 0
    /\ task = [t \in Tasks |-> Idle]
    /\ cancelsDone = TRUE

\* ------------------------------------------------ Peer (domain/peer.py)
\* The tracker hands out each peer once: peer p has its own (IP, port).
IP(p) == p

port(p) == 6881

\* Peer.__eq__: the address and the protocol flags (amChokingIt and
\* isInterestedInMe keep their initial values in every peer: nothing in
\* the client changes them).
PeerEq(p, q) ==
    /\ IP(p) = IP(q)
    /\ port(p) = port(q)
    /\ isChokingMe[p] = isChokingMe[q]
    /\ amInterestedInIt[p] = amInterestedInIt[q]

\* `block in list` / `block not in list`
InList(b, list) == \E k \in 1..Len(list) : list[k] = b

\* list.pop(k), k counted from 1
Pop(list, k) == SubSeq(list, 1, k - 1) \o SubSeq(list, k + 1, Len(list))

\* --------------------------------- DownloadSession (downloadSession.py)
\* The condition of __getPeerWithCurrentPiece for one peer.
PeerHasCurrentPiece(p, i) ==
    /\ activeConnection[p]
    /\ ~isChokingMe[p]
    /\ amInterestedInIt[p]
    /\ i \in availablePieces[p]

\* A selection that takes the last qualifying peer of the list.
GetPeerWithCurrentPieceMut(i) ==
    IF \E p \in Peers : PeerHasCurrentPiece(p, i)
    THEN CHOOSE p \in Peers :
            /\ PeerHasCurrentPiece(p, i)
            /\ \A q \in Peers : PeerHasCurrentPiece(q, i) => q <= p
    ELSE None

\* __getPeerWithCurrentPiece: the first peer of the list that qualifies.
GetPeerWithCurrentPiece(i) ==
    IF \E p \in Peers : PeerHasCurrentPiece(p, i)
    THEN CHOOSE p \in Peers :
            /\ PeerHasCurrentPiece(p, i)
            /\ \A q \in Peers : PeerHasCurrentPiece(q, i) => p <= q
    ELSE None

\* A test that leaves out the chosen peer's list.
CanRequestMut(i, k, peer) ==
    ~isComplete[<<i, k>>]

\* The test of line 48 on block k of piece i against the chosen peer.
CanRequest(i, k, peer) ==
    /\ ~isComplete[<<i, k>>]
    /\ ~InList(Block(i, k), blocksRequestedFromPeer[peer])

\* The inner loop (lines 45-49) from block index k: the block index it
\* returns (the cursor is left one past it), or -1 when it runs off the
\* piece's blocks.
RECURSIVE WalkBlocks(_, _, _)
WalkBlocks(i, k, peer) ==
    IF k < BlockCount(i)
    THEN IF CanRequest(i, k, peer) THEN k ELSE WalkBlocks(i, k + 1, peer)
    ELSE -1

\* A sweep that ends with the block cursor at 1.
CursorAfterSweepMut == <<0, 1>>

\* The cursor after the sweep walked off the end (line 53).
CursorAfterSweep == <<0, 0>>

\* __determineNextBlockToRequest from cursor (i, k): what it returns and
\* where it leaves the cursor.
RECURSIVE DetermineNextBlockToRequest(_, _)
DetermineNextBlockToRequest(i, k) ==
    IF i < NumPieces
    THEN LET peer == GetPeerWithCurrentPiece(i)
             found == IF ~isDownloadComplete[i] /\ peer # None
                      THEN WalkBlocks(i, k, peer)
                      ELSE -1
         IN  IF found >= 0
             THEN [found |-> TRUE, block |-> Block(i, found), peer |-> peer,
                   pieceIndex |-> i, blockIndex |-> found + 1]
             ELSE DetermineNextBlockToRequest(i + 1, 0)
    ELSE [found |-> FALSE, block |-> Block(0, 0), peer |-> None,
          pieceIndex |-> CursorAfterSweep[1], blockIndex |-> CursorAfterSweep[2]]

\* requestNextBlock up to its await (lines 62-66): the selection moves the
\* cursor; a selected block's Request is written to the chosen peer and the
\* coroutine is suspended in send().
RequestNextBlock(t) ==
    /\ task[t].pc = "idle"
    /\ LET r == DetermineNextBlockToRequest(currentPieceIndex, currentBlockIndex)
       IN  /\ currentPieceIndex' = r.pieceIndex
           /\ currentBlockIndex' = r.blockIndex
           /\ task' = IF r.found
                      THEN [task EXCEPT ![t] = [pc |-> "request", block |-> r.block,
                                                peer |-> r.peer]]
                      ELSE task
    /\ UNCHANGED <<isChokingMe, amInterestedInIt, activeConnection, availablePieces,
                   blocksRequestedFromPeer, isComplete, isDownloadComplete,
                   downloadedPieces, cancelsDone>>
    /\ UNCHANGED <<sessVars, call>>

\* An append that empties the lists of the other peers.
RequestAppendMut(t) ==
    /\ task[t].pc = "request"
    /\ blocksRequestedFromPeer' =
           [p \in Peers |-> IF p = task[t].peer
                            THEN Append(blocksRequestedFromPeer[p], task[t].block)
                            ELSE <<>>]
    /\ task' = [task EXCEPT ![t] = Idle]
    /\ UNCHANGED <<isChokingMe, amInterestedInIt, activeConnection, availablePieces,
                   isComplete, isDownloadComplete, downloadedPieces,
                   currentPieceIndex, currentBlockIndex, cancelsDone>>
    /\ UNCHANGED <<sessVars, call>>

\* requestNextBlock after its await (line 67): the append.
RequestAppend(t) ==
    /\ task[t].pc = "request"
    /\ blocksRequestedFromPeer' =
           [blocksRequestedFromPeer EXCEPT ![task[t].peer] = Append(@, task[t].block)]
    /\ task' = [task EXCEPT ![t] = Idle]
    /\ UNCHANGED <<isChokingMe, amInterestedInIt, activeConnection, availablePieces,
                   isComplete, isDownloadComplete, downloadedPieces,
                   currentPieceIndex, currentBlockIndex, cancelsDone>>
    /\ UNCHANGED <<sessVars, call>>

\* The position (from 1) of the first entry of `list` for (pieceIndex,
\* beginOffset), 0 when there is none: the scan of lines 72-73.
RECURSIVE MatchIndex(_, _, _, _)
MatchIndex(list, pieceIndex, beginOffset, k) ==
    IF k > Len(list) THEN 0
    ELSE IF list[k].pieceIndex = pieceIndex /\ list[k].beginOffset = beginOffset
         THEN k
         ELSE MatchIndex(list, pieceIndex, beginOffset, k + 1)

\* cancelRequestsToOtherPeers from peer q of the list on, up to its next
\* await: a match in a peer equal to the sender is popped at once (lines
\* 74, 77), a match in another peer stops the scan in CancelMessage.send
\* (line 75) with the matching position in hand.
RECURSIVE CancelScan(_, _, _, _, _)
CancelScan(q, lists, pieceIndex, beginOffset, sender) ==
    IF q > NumPeers
    THEN [lists |-> lists, otherPeer |-> None, blockIndex |-> 0]
    ELSE LET k == MatchIndex(lists[q], pieceIndex, beginOffset, 1)
         IN  IF k = 0
             THEN CancelScan(q + 1, lists, pieceIndex, beginOffset, sender)
             ELSE IF ~PeerEq(q, sender)
                  THEN [lists |-> lists, otherPeer |-> q, blockIndex |-> k]
                  ELSE CancelScan(q + 1, [lists EXCEPT ![q] = Pop(@, k)],
                                  pieceIndex, beginOffset, sender)

\* Whether a call of cancelRequestsToOtherPeers that ends now did what is
\* expected of it: a Cancel went to every peer but the sender in whose list
\* the scan found the block and to nobody else, and no list holds the
\* block any more.
CancelDone(c, lists) ==
    /\ c.sentTo = c.matched \ {c.sender}
    /\ \A q \in Peers : MatchIndex(lists[q], c.pieceIndex, c.beginOffset, 1) = 0

\* The call's state after a scan that started at peer q.
CancelStep(t, c, q, lists) ==
    LET r == CancelScan(q, lists, c.pieceIndex, c.beginOffset, c.sender)
        last == IF r.otherPeer = None THEN NumPeers ELSE r.otherPeer
        seen == {x \in q..last : MatchIndex(lists[x], c.pieceIndex, c.beginOffset, 1) # 0}
        d == [c EXCEPT !.matched = @ \cup seen]
    IN  /\ blocksRequestedFromPeer' = r.lists
        /\ IF r.otherPeer = None
           THEN /\ task' = [task EXCEPT ![t] = Idle]
                /\ cancelsDone' = (cancelsDone /\ CancelDone(d, r.lists))
           ELSE /\ task' = [task EXCEPT ![t] =
                               [d EXCEPT !.otherPeer = r.otherPeer,
                                         !.blockIndex = r.blockIndex,
                                         !.length = r.lists[r.otherPeer][r.blockIndex].length,
                                         !.sentTo = @ \cup {r.otherPeer}]]
                /\ UNCHANGED cancelsDone

\* A markPieceAsDownloaded that sets every bit of the bitmap.
MarkPieceAsDownloadedMut(bitmap, i) == [j \in PieceIndexes |-> TRUE]

\* markPieceAsDownloaded (lines 90-91) on the bitmap __downloadedPieces.
MarkPieceAsDownloaded(bitmap, i) == [bitmap EXCEPT ![i] = TRUE]

\* isDownloaded (lines 93-94)
IsDownloaded == \A i \in PieceIndexes : downloadedPieces[i]

\* A Piece message from peer p for a block requested from it: the block is
\* stored and marked complete; a piece whose blocks are all there is
\* verified (hashOK) and marked downloaded, or has its blocks reset; then
\* cancelRequestsToOtherPeers(pieceIndex, beginOffset, p) runs to its first
\* await.
PieceMessage(p, b, hashOK) ==
    /\ task[p].pc = "idle"
    /\ activeConnection[p] /\ amInterestedInIt[p]
    /\ InList(b, blocksRequestedFromPeer[p])
    /\ LET i == b.pieceIndex
           ids == {id \in AllBlockIds : id[1] = i}
           allThere == \A id \in ids : id = BlockId(b) \/ isComplete[id]
       IN  IF isDownloadComplete[i]
           THEN UNCHANGED <<isComplete, isDownloadComplete, downloadedPieces>>
           ELSE IF ~allThere
           THEN /\ isComplete' = [isComplete EXCEPT ![BlockId(b)] = TRUE]
                /\ UNCHANGED <<isDownloadComplete, downloadedPieces>>
           ELSE IF hashOK
           THEN /\ isComplete' = [isComplete EXCEPT ![BlockId(b)] = TRUE]
                /\ isDownloadComplete' = [isDownloadComplete EXCEPT ![i] = TRUE]
                /\ downloadedPieces' = MarkPieceAsDownloaded(downloadedPieces, i)
           ELSE /\ isComplete' = [id \in AllBlockIds |->
                                     IF id \in ids THEN FALSE ELSE isComplete[id]]
                /\ UNCHANGED <<isDownloadComplete, downloadedPieces>>
    /\ CancelStep(p, [pc |-> "cancel", pieceIndex |-> b.pieceIndex,
                      beginOffset |-> b.beginOffset, sender |-> p,
                      otherPeer |-> None, blockIndex |-> 0, length |-> 0,
                      matched |-> {}, sentTo |-> {}],
                  1, blocksRequestedFromPeer)
    /\ UNCHANGED <<isChokingMe, amInterestedInIt, activeConnection, availablePieces,
                   currentPieceIndex, currentBlockIndex>>
    /\ UNCHANGED <<sessVars, call>>

\* cancelRequestsToOtherPeers after the await of line 75: pop(blockIndex)
\* on the list as it is now (line 77), break, and on to the next peer. A
\* position past the end of the list raises IndexError out of the call.
CancelResume(t) ==
    /\ task[t].pc = "cancel"
    /\ LET c == task[t]
           q == c.otherPeer
       IN  IF c.blockIndex > Len(blocksRequestedFromPeer[q])
           THEN /\ task' = [task EXCEPT ![t] = Idle]
                /\ cancelsDone' = (cancelsDone /\ CancelDone(c, blocksRequestedFromPeer))
                /\ UNCHANGED blocksRequestedFromPeer
           ELSE CancelStep(t, c, q + 1,
                           [blocksRequestedFromPeer EXCEPT ![q] = Pop(@, c.blockIndex)])
    /\ UNCHANGED <<isChokingMe, amInterestedInIt, activeConnection, availablePieces,
                   isComplete, isDownloadComplete, downloadedPieces,
                   currentPieceIndex, currentBlockIndex>>
    /\ UNCHANGED <<sessVars, call>>

\* ------------------------------------------- the peers' sessions and wire
\* In the scheduler's view the session of peer p is three steps: it gets
\* its connection (asyncio.open_connection),
SessionConnects(p) ==
    /\ ~activeConnection[p] /\ ~amInterestedInIt[p]
    /\ activeConnection' = [activeConnection EXCEPT ![p] = TRUE]
    /\ UNCHANGED <<isChokingMe, amInterestedInIt, availablePieces,
                   blocksRequestedFromPeer, isComplete, isDownloadComplete,
                   downloadedPieces, currentPieceIndex, currentBlockIndex, task,
                   cancelsDone>>
    /\ UNCHANGED <<sessVars, call>>

\* it sends Interested after the handshake and sets the flag,
SessionInterested(p) ==
    /\ activeConnection[p] /\ ~amInterestedInIt[p]
    /\ amInterestedInIt' = [amInterestedInIt EXCEPT ![p] = TRUE]
    /\ UNCHANGED <<isChokingMe, activeConnection, availablePieces,
                   blocksRequestedFromPeer, isComplete, isDownloadComplete,
                   downloadedPieces, currentPieceIndex, currentBlockIndex, task,
                   cancelsDone>>
    /\ UNCHANGED <<sessVars, call>>

\* and its connection is closed (Peer.closeConnection).
SessionCloses(p) ==
    /\ activeConnection[p]
    /\ activeConnection' = [activeConnection EXCEPT ![p] = FALSE]
    /\ UNCHANGED <<isChokingMe, amInterestedInIt, availablePieces,
                   blocksRequestedFromPeer, isComplete, isDownloadComplete,
                   downloadedPieces, currentPieceIndex, currentBlockIndex, task,
                   cancelsDone>>
    /\ UNCHANGED <<sessVars, call>>

\* The session of peer p is in its read loop and between two messages.
Reading(p) == task[p].pc = "idle" /\ activeConnection[p] /\ amInterestedInIt[p]

\* Choke from peer p: the flag, and the peer's requests are abandoned.
ChokeMessage(p) ==
    /\ Reading(p) /\ ~isChokingMe[p]
    /\ isChokingMe' = [isChokingMe EXCEPT ![p] = TRUE]
    /\ blocksRequestedFromPeer' = [blocksRequestedFromPeer EXCEPT ![p] = <<>>]
    /\ UNCHANGED <<amInterestedInIt, activeConnection, availablePieces, isComplete,
                   isDownloadComplete, downloadedPieces, currentPieceIndex,
                   currentBlockIndex, task, cancelsDone>>
    /\ UNCHANGED <<sessVars, call>>

\* Unchoke from peer p.
UnchokeMessage(p) ==
    /\ Reading(p) /\ isChokingMe[p]
    /\ isChokingMe' = [isChokingMe EXCEPT ![p] = FALSE]
    /\ UNCHANGED <<amInterestedInIt, activeConnection, availablePieces,
                   blocksRequestedFromPeer, isComplete, isDownloadComplete,
                   downloadedPieces, currentPieceIndex, currentBlockIndex, task,
                   cancelsDone>>
    /\ UNCHANGED <<sessVars, call>>

\* Bitfield from peer p replaces its bits; Have is the case of one more bit.
BitfieldMessage(p, bits) ==
    /\ Reading(p) /\ bits # availablePieces[p]
    /\ availablePieces' = [availablePieces EXCEPT ![p] = bits]
    /\ UNCHANGED <<isChokingMe, amInterestedInIt, activeConnection,
                   blocksRequestedFromPeer, isComplete, isDownloadComplete,
                   downloadedPieces, currentPieceIndex, currentBlockIndex, task,
                   cancelsDone>>
    /\ UNCHANGED <<sessVars, call>>

\* ------------------------ ProcessSingleTorrent (processSingleTorrent.py)
NoRequest == [pieceIndex |-> -1, beginOffset |-> 0, length |-> 0]

\* A session before __startPeer's first step. `attempt` counts the connect
\* attempts begun, `iteration` the passes of the read loop begun; the rest
\* is history: `validated` says that the handshake response received on the
\* current connection was a good one, `sent` names the first message sent
\* on it after the handshake, `early` says that a message was sent or a
\* frame read on it before a good response, `request` is the last Request
\* of __requestPiece.
NewSession ==
    [pc |-> "connect", attempt |-> 0, iteration |-> 0, validated |-> FALSE,
     sent |-> "none", early |-> FALSE, request |-> NoRequest]

InitSess ==
    /\ session = [p \in Peers |-> NewSession]
    /\ mainTask = "running"

Ended == {"notConnected", "returned", "raised", "cancelled"}

\* What the peer may answer to the handshake: `length` bytes, of which the
\* protocol string and the info-hash are right or not.
HandshakeResponses ==
    {[length |-> HANDSHAKE_LENGTH, protocol |-> a, infoHash |-> b] :
         a \in BOOLEAN, b \in BOOLEAN}
    \cup {[length |-> n, protocol |-> FALSE, infoHash |-> FALSE] :
              n \in {0, HANDSHAKE_LENGTH - 1}}

\* HandshakeResponseValidator.validateHandshakeResponse
ValidateHandshakeResponse(r) ==
    r.length = HANDSHAKE_LENGTH /\ r.protocol /\ r.infoHash

\* Peer.closeConnection: closes the connection the peer has, if any.
Closed(p) == [activeConnection EXCEPT ![p] = FALSE]

\* A failed attempt that leaves its connection open.
AttemptFailedMut(p) ==
    /\ UNCHANGED activeConnection
    /\ session' = [session EXCEPT ![p] =
                      [@ EXCEPT !.pc = IF session[p].attempt < ATTEMPTS_TO_CONNECT_TO_PEER
                                       THEN "connect" ELSE "notConnected",
                                !.validated = FALSE, !.sent = "none"]]

\* The end of a failed attempt of __attemptToConnectToPeer (lines 69-72):
\* the connection is closed, and the loop goes on or returns False, which
\* ends __startPeer (lines 126-127).
AttemptFailed(p) ==
    /\ activeConnection' = Closed(p)
    /\ session' = [session EXCEPT ![p] =
                      [@ EXCEPT !.pc = IF session[p].attempt < ATTEMPTS_TO_CONNECT_TO_PEER
                                       THEN "connect" ELSE "notConnected",
                                !.validated = FALSE, !.sent = "none"]]

\* One attempt's asyncio.open_connection (line 64), and the handshake
\* written to the new connection (line 65).
AttemptToConnectToPeer(p, connected) ==
    /\ mainTask = "running"
    /\ session[p].pc = "connect"
    /\ IF connected
       THEN /\ activeConnection' = [activeConnection EXCEPT ![p] = TRUE]
            /\ session' = [session EXCEPT ![p] =
                              [@ EXCEPT !.pc = "handshake", !.attempt = @ + 1]]
       ELSE /\ activeConnection' = Closed(p)
            /\ session' = [session EXCEPT ![p] =
                              [@ EXCEPT !.attempt = @ + 1,
                                        !.pc = IF session[p].attempt + 1 < ATTEMPTS_TO_CONNECT_TO_PEER
                                               THEN "connect" ELSE "notConnected"]]
    /\ UNCHANGED <<isChokingMe, amInterestedInIt, availablePieces, pieceCount, mainTask>>
    /\ UNCHANGED <<blocksRequestedFromPeer, isComplete, isDownloadComplete,
                   downloadedPieces, currentPieceIndex, currentBlockIndex, task,
                   cancelsDone, call>>

\* A response the wire protocol accepts as a handshake: 68 bytes with the
\* right protocol string and the right info-hash.
GoodHandshake(r) == r.length = 68 /\ r.protocol /\ r.infoHash

\* The rest of the attempt (lines 65-71): the send of the handshake or the
\* read of the response raises, or a response `r` is read and validated.
AttemptHandshake(p, error, r) ==
    /\ mainTask = "running"
    /\ session[p].pc = "handshake"
    /\ IF ~error /\ ValidateHandshakeResponse(r)
       THEN /\ session' = [session EXCEPT ![p] =
                              [@ EXCEPT !.pc = "interested",
                                        !.validated = GoodHandshake(r)]]
            /\ UNCHANGED activeConnection
       ELSE AttemptFailed(p)
    /\ UNCHANGED <<isChokingMe, amInterestedInIt, availablePieces, pieceCount, mainTask>>
    /\ UNCHANGED <<blocksRequestedFromPeer, isComplete, isDownloadComplete,
                   downloadedPieces, currentPieceIndex, currentBlockIndex, task,
                   cancelsDone, call>>

\* __startPeer, line 129: Interested is written and the send awaited.
StartPeerSendInterested(p) ==
    /\ mainTask = "running"
    /\ session[p].pc = "interested"
    /\ session' = [session EXCEPT ![p] =
                      [@ EXCEPT !.pc = "setInterested",
                                !.sent = IF @ = "none" THEN "Interested" ELSE @,
                                !.early = @ \/ ~session[p].validated]]
    /\ UNCHANGED <<isChokingMe, amInterestedInIt, activeConnection, availablePieces,
                   pieceCount, mainTask>>
    /\ UNCHANGED <<blocksRequestedFromPeer, isComplete, isDownloadComplete,
                   downloadedPieces, currentPieceIndex, currentBlockIndex, task,
                   cancelsDone, call>>

\* A __startPeer that goes on to read without setting the flag.
StartPeerSetInterestedMut(p, sendOK) ==
    /\ mainTask = "running"
    /\ session[p].pc = "setInterested"
    /\ session' = [session EXCEPT ![p] = [@ EXCEPT !.pc = IF sendOK THEN "read" ELSE "raised"]]
    /\ UNCHANGED <<isChokingMe, amInterestedInIt, activeConnection, availablePieces,
                   pieceCount, mainTask>>
    /\ UNCHANGED <<blocksRequestedFromPeer, isComplete, isDownloadComplete,
                   downloadedPieces, currentPieceIndex, currentBlockIndex, task,
                   cancelsDone, call>>

\* __startPeer, lines 129-130: the send returns and the flag is set, or the
\* send raises and the exception leaves __startPeer.
StartPeerSetInterested(p, sendOK) ==
    /\ mainTask = "running"
    /\ session[p].pc = "setInterested"
    /\ IF sendOK
       THEN /\ amInterestedInIt' = [amInterestedInIt EXCEPT ![p] = TRUE]
            /\ session' = [session EXCEPT ![p] = [@ EXCEPT !.pc = "read"]]
       ELSE /\ session' = [session EXCEPT ![p] = [@ EXCEPT !.pc = "raised"]]
            /\ UNCHANGED amInterestedInIt
    /\ UNCHANGED <<isChokingMe, activeConnection, availablePieces, pieceCount, mainTask>>
    /\ UNCHANGED <<blocksRequestedFromPeer, isComplete, isDownloadComplete,
                   downloadedPieces, currentPieceIndex, currentBlockIndex, task,
                   cancelsDone, call>>

\* What one pass of __readMessage may meet: a ConnectionError while reading
\* the length prefix; nothing read; a keep-alive; a ConnectionError while
\* reading the id or the payload; an extended message; a frame the factory
\* or the processor raises on; and the messages that change the peer.
Inbound ==
    {"prefixError", "nothing", "keepAlive", "frameError", "extended",
     "undecodable", "Choke", "Unchoke", "Bitfield", "EmptyBitfield"}

\* The bit of piece PIECE_INDEX can be set in a bitfield that has it.
BitfieldOf(m) ==
    IF m = "Bitfield" /\ PIECE_INDEX < pieceCount THEN {PIECE_INDEX} ELSE {}

\* One pass of the loop of __startPeer up to the end of __readMessage
\* (lines 131-133 and 94-123).
ReadMessage(p, m) ==
    /\ mainTask = "running"
    /\ session[p].pc = "read"
    /\ IF session[p].iteration = READ_LOOP_ITERATIONS \/ ~activeConnection[p]
       THEN /\ session' = [session EXCEPT ![p] = [@ EXCEPT !.pc = "returned"]]
            /\ UNCHANGED <<isChokingMe, availablePieces>>
       ELSE /\ session' = [session EXCEPT ![p] =
                              [@ EXCEPT !.iteration = @ + 1,
                                        !.early = @ \/ ~session[p].validated,
                                        !.pc = CASE m = "prefixError" -> "returned"
                                                 [] m = "frameError" -> "raised"
                                                 [] OTHER -> "requestPiece"]]
            /\ isChokingMe' = CASE m = "Choke" -> [isChokingMe EXCEPT ![p] = TRUE]
                                [] m = "Unchoke" -> [isChokingMe EXCEPT ![p] = FALSE]
                                [] OTHER -> isChokingMe
            /\ availablePieces' =
                   IF m \in {"Bitfield", "EmptyBitfield"}
                   THEN [availablePieces EXCEPT ![p] = BitfieldOf(m)]
                   ELSE availablePieces
    /\ UNCHANGED <<amInterestedInIt, activeConnection, pieceCount, mainTask>>
    /\ UNCHANGED <<blocksRequestedFromPeer, isComplete, isDownloadComplete,
                   downloadedPieces, currentPieceIndex, currentBlockIndex, task,
                   cancelsDone, call>>

\* __requestPiece (lines 83-87): availablePieces[69] raises IndexError on a
\* bitfield of fewer bits; a Request that is sent is Request(69, 0, 2**14),
\* and its send may raise.
RequestPiece(p, sendOK) ==
    /\ mainTask = "running"
    /\ session[p].pc = "requestPiece"
    /\ session' = [session EXCEPT ![p] =
           IF isChokingMe[p] \/ ~amInterestedInIt[p]
           THEN [@ EXCEPT !.pc = "read"]
           ELSE IF PIECE_INDEX >= pieceCount
           THEN [@ EXCEPT !.pc = "raised"]
           ELSE IF PIECE_INDEX \notin availablePieces[p]
           THEN [@ EXCEPT !.pc = "read"]
           ELSE [@ EXCEPT !.pc = IF sendOK THEN "read" ELSE "raised",
                          !.sent = IF @ = "none" THEN "Request" ELSE @,
                          !.early = @ \/ ~session[p].validated,
                          !.request = [pieceIndex |-> PIECE_INDEX, beginOffset |-> 0,
                                       length |-> BLOCK_LENGTH]]]
    /\ UNCHANGED <<isChokingMe, amInterestedInIt, activeConnection, availablePieces,
                   pieceCount, mainTask>>
    /\ UNCHANGED <<blocksRequestedFromPeer, isComplete, isDownloadComplete,
                   downloadedPieces, currentPieceIndex, currentBlockIndex, task,
                   cancelsDone, call>>

\* __peerCommunication and start (lines 142-145, 150-152): gather hands the
\* first exception of a session to __peerCommunication, which ends with it;
\* asyncio.run then cancels every task that is still running.
PeerCommunicationRaises ==
    /\ mainTask = "running"
    /\ \E p \in Peers : session[p].pc = "raised"
    /\ mainTask' = "raised"
    /\ session' = [p \in Peers |->
                      IF session[p].pc \in Ended THEN session[p]
                      ELSE [session[p] EXCEPT !.pc = "cancelled"]]
    /\ UNCHANGED <<isChokingMe, amInterestedInIt, activeConnection, availablePieces,
                   pieceCount>>
    /\ UNCHANGED <<blocksRequestedFromPeer, isComplete, isDownloadComplete,
                   downloadedPieces, currentPieceIndex, currentBlockIndex, task,
                   cancelsDone, call>>

\* gather returns when every session has returned.
PeerCommunication ==
    /\ mainTask = "running"
    /\ \A p \in Peers : session[p].pc \in {"notConnected", "returned"}
    /\ mainTask' = "finished"
    /\ UNCHANGED <<isChokingMe, amInterestedInIt, activeConnection, availablePieces,
                   pieceCount, session>>
    /\ UNCHANGED <<blocksRequestedFromPeer, isComplete, isDownloadComplete,
                   downloadedPieces, currentPieceIndex, currentBlockIndex, task,
                   cancelsDone, call>>

Init == InitSched /\ InitSess /\ pieceCount = NumPieces /\ call = NoCall

Next ==
    \/ RequestNextBlock(Driver)
    \/ RequestAppend(Driver)
    \/ \E p \in Peers : \E b \in AllBlocks : \E hashOK \in BOOLEAN : PieceMessage(p, b, hashOK)
    \/ \E t \in Peers : CancelResume(t)
    \/ \E p \in Peers : SessionConnects(p)
    \/ \E p \in Peers : SessionInterested(p)
    \/ \E p \in Peers : SessionCloses(p)
    \/ \E p \in Peers : ChokeMessage(p)
    \/ \E p \in Peers : UnchokeMessage(p)
    \/ \E p \in Peers : \E bits \in SUBSET PieceIndexes : BitfieldMessage(p, bits)

Spec == Init /\ [][Next]_vars

\* The same scheduler when the peer sessions call requestNextBlock too, so
\* that several calls are in progress at once; the peers here send no
\* Piece.
NextConcurrent ==
    \/ \E t \in Peers : RequestNextBlock(t)
    \/ \E t \in Peers : RequestAppend(t)
    \/ \E p \in Peers : SessionConnects(p)
    \/ \E p \in Peers : SessionInterested(p)
    \/ \E p \in Peers : SessionCloses(p)
    \/ \E p \in Peers : ChokeMessage(p)
    \/ \E p \in Peers : UnchokeMessage(p)
    \/ \E p \in Peers : \E bits \in SUBSET PieceIndexes : BitfieldMessage(p, bits)

ConcurrentSpec == Init /\ [][NextConcurrent]_vars

\* The peer sessions of one run of ProcessSingleTorrent.start.
SessionInit ==
    InitSched /\ InitSess /\ pieceCount \in SessionPieceCounts /\ call = NoCall

SessionNext ==
    \/ \E p \in Peers : \E connected \in BOOLEAN : AttemptToConnectToPeer(p, connected)
    \/ \E p \in Peers : \E error \in BOOLEAN : \E r \in HandshakeResponses :
           AttemptHandshake(p, error, r)
    \/ \E p \in Peers : StartPeerSendInterested(p)
    \/ \E p \in Peers : \E sendOK \in BOOLEAN : StartPeerSetInterested(p, sendOK)
    \/ \E p \in Peers : \E m \in Inbound : ReadMessage(p, m)
    \/ \E p \in Peers : \E sendOK \in BOOLEAN : RequestPiece(p, sendOK)
    \/ PeerCommunicationRaises
    \/ PeerCommunication

SessionSpec == SessionInit /\ [][SessionNext]_vars

\* ------------------------ __attemptToReadBytes (processSingleTorrent.py)
\* The largest byteCount asked for.
MaxRead == 3

\* The values of the bytes a reader delivers.
ReadBytes == {0, 1}

\* The empty reads in a row after which the helper gives up (line 46).
EMPTY_READS_IN_A_ROW == 3

\* The sequences over S of length n.
SeqsOfLen(S, n) == [1..n -> S]

\* What reader.read(n) may return: at most n bytes, none included.
ReadResults(n) == UNION {SeqsOfLen(ReadBytes, k) : k \in 0..n}

\* The locals of a call __attemptToReadBytes(reader, byteCount) at the top
\* of its loop; `chunks` is the history of what reader.read returned.
NewRead(byteCount) ==
    [op |-> "read", pc |-> "loop", byteCount |-> byteCount, payload |-> <<>>,
     completedLength |-> 0, consecutiveEmptyMessages |-> 0, chunks |-> <<>>]

\* The loop condition of line 46.
ReadGoesOn ==
    /\ call.completedLength < call.byteCount
    /\ call.consecutiveEmptyMessages < EMPTY_READS_IN_A_ROW

\* A pass of the loop that counts an empty read and never resets the count.
ReaderReadMut(newSequence) ==
    /\ call.op = "read" /\ call.pc = "loop"
    /\ ReadGoesOn
    /\ Len(newSequence) <= call.byteCount - call.completedLength
    /\ call' = [call EXCEPT
                   !.payload = @ \o newSequence,
                   !.completedLength = @ + Len(newSequence),
                   !.consecutiveEmptyMessages =
                       IF Len(newSequence) = 0 THEN @ + 1 ELSE @,
                   !.chunks = Append(@, newSequence)]
    /\ UNCHANGED <<schedVars, sessVars>>

\* One pass of the loop (lines 46-53): reader.read(byteCount -
\* completedLength) returns newSequence.
ReaderRead(newSequence) ==
    /\ call.op = "read" /\ call.pc = "loop"
    /\ ReadGoesOn
    /\ Len(newSequence) <= call.byteCount - call.completedLength
    /\ call' = [call EXCEPT
                   !.payload = @ \o newSequence,
                   !.completedLength = @ + Len(newSequence),
                   !.consecutiveEmptyMessages =
                       IF Len(newSequence) = 0 THEN @ + 1 ELSE 0,
                   !.chunks = Append(@, newSequence)]
    /\ UNCHANGED <<schedVars, sessVars>>

\* reader.read raises (line 47): the exception leaves the helper.
ReaderRaises ==
    /\ call.op = "read" /\ call.pc = "loop"
    /\ ReadGoesOn
    /\ call' = [call EXCEPT !.pc = "raised"]
    /\ UNCHANGED <<schedVars, sessVars>>

\* The loop ends and the helper returns payload (line 54).
AttemptToReadBytesReturns ==
    /\ call.op = "read" /\ call.pc = "loop"
    /\ ~ReadGoesOn
    /\ call' = [call EXCEPT !.pc = "done"]
    /\ UNCHANGED <<schedVars, sessVars>>

ReadInit ==
    /\ InitSched /\ InitSess /\ pieceCount = NumPieces
    /\ call \in {NewRead(n) : n \in 0..MaxRead}

ReadNext ==
    \/ \E newSequence \in ReadResults(MaxRead) : ReaderRead(newSequence)
    \/ ReaderRaises
    \/ AttemptToReadBytesReturns

ReadSpec == ReadInit /\ [][ReadNext]_vars

\* ------------------------------ TrackerResponseScanner (trackerResponseScanner.py)
\* Byte strings are sequences of the bytes' values; position k of Python's
\* indexing is position k + 1 here.

\* b"5:peers"
PEERS_PART_HEADER == <<53, 58, 112, 101, 101, 114, 115>>

PEER_SIZE == 6

\* b"5:peersld2:ip"
DICT_MODEL_IDENTIFIER == <<53, 58, 112, 101, 101, 114, 115, 108, 100, 50, 58, 105, 112>>

\* The largest number of peers of a tracker response.
MaxTrackerPeers == 3

\* The peers a tracker names, each by the six bytes of its compact form:
\* 10.0.0.1:6881, 53.58.112.101:25970, 115.108.100.50:14953, 112.0.0.1:80.
PeerGroups ==
    {<<10, 0, 0, 1, 26, 225>>, <<53, 58, 112, 101, 101, 114>>,
     <<115, 108, 100, 50, 58, 105>>, <<112, 0, 0, 1, 0, 80>>}

LogicalPeerLists == UNION {SeqsOfLen(PeerGroups, n) : n \in 0..MaxTrackerPeers}

\* The decimal digits of n, as ASCII.
RECURSIVE Decimal(_)
Decimal(n) ==
    IF n < 10 THEN <<48 + n>> ELSE Decimal(n \div 10) \o <<48 + (n % 10)>>

RECURSIVE Concat(_)
Concat(seqs) == IF seqs = <<>> THEN <<>> ELSE Head(seqs) \o Concat(Tail(seqs))

\* The compact response of a tracker for these peers: d5:peers<6n>:<bytes>e
CompactResponse(groups) ==
    <<100>> \o PEERS_PART_HEADER \o Decimal(PEER_SIZE * Len(groups)) \o <<58>>
        \o Concat(groups) \o <<101>>

\* The dotted quad of the four address bytes of a group, as ASCII.
DottedQuad(g) ==
    Decimal(g[1]) \o <<46>> \o Decimal(g[2]) \o <<46>> \o Decimal(g[3])
        \o <<46>> \o Decimal(g[4])

\* A peer of the dictionary model: d2:ip<len>:<dotted quad>4:porti<port>ee
DictPeer(g) ==
    <<100, 50, 58, 105, 112>> \o Decimal(Len(DottedQuad(g))) \o <<58>>
        \o DottedQuad(g) \o <<52, 58, 112, 111, 114, 116, 105>>
        \o Decimal(g[5] * 256 + g[6]) \o <<101, 101>>

\* The dictionary-model response for these peers: d5:peersl<peers>ee
DictResponse(groups) ==
    <<100>> \o PEERS_PART_HEADER \o <<108>>
        \o Concat([k \in 1..Len(groups) |-> DictPeer(groups[k])]) \o <<101, 101>>

\* bytes.find: the lowest Python position at which needle occurs, or -1.
Find(hay, needle) ==
    LET hits == {k \in 0..(Len(hay) - Len(needle)) :
                     SubSeq(hay, k + 1, k + Len(needle)) = needle}
    IN  IF hits = {} THEN -1 ELSE CHOOSE k \in hits : \A j \in hits : k <= j

\* A Peer as the scanner builds it (peer.py, lines 2-8); IP is the value
\* handed to the constructor, an int or a str.
NewPeer(IP0, port0) ==
    [IP |-> IP0, port |-> port0, amChokingIt |-> TRUE, isChokingMe |-> TRUE,
     amInterestedInIt |-> FALSE, isInterestedInMe |-> FALSE]

IntValue(n) == [type |-> "int", value |-> n]

StrValue(chars) == [type |-> "str", value |-> chars]

\* Python's == on two such values: an int and a str are never equal.
ValueEq(a, b) == a.type = b.type /\ a.value = b.value

\* Peer.__eq__ on two peers of a list.
PeerValueEq(a, b) ==
    /\ ValueEq(a.IP, b.IP) /\ a.port = b.port
    /\ a.isChokingMe = b.isChokingMe /\ a.amInterestedInIt = b.amInterestedInIt

Raised == [ok |-> FALSE, peers |-> <<>>]

Returned(peerList) == [ok |-> TRUE, peers |-> peerList]
\* The loop of lines 27-29 from Python position idx: the number read and the
\* position after the byte that ends it (line 30); indexing past the end of
\* peersPart raises IndexError.
RECURSIVE ParseByteCount(_, _, _)
ParseByteCount(peersPart, idx, peersByteCount) ==
    IF idx >= Len(peersPart) THEN [ok |-> FALSE, count |-> 0, index |-> idx]
    ELSE IF 48 <= peersPart[idx + 1] /\ peersPart[idx + 1] <= 57
    THEN ParseByteCount(peersPart, idx + 1,
                        peersByteCount * 10 + peersPart[idx + 1] - 48)
    ELSE [ok |-> TRUE, count |-> peersByteCount, index |-> idx + 1]

\* Lines 34-36: the peer of the six bytes at Python position currentIndex.
PeerAt(peersPart, currentIndex) ==
    NewPeer(IntValue(peersPart[currentIndex + 1] * 16777216
                     + peersPart[currentIndex + 2] * 65536
                     + peersPart[currentIndex + 3] * 256
                     + peersPart[currentIndex + 4]),
            peersPart[currentIndex + 5] * 256 + peersPart[currentIndex + 6])

\* __computePeersBinaryModel
ComputePeersBinaryModel(peersPart) ==
    LET c == ParseByteCount(peersPart, Len(PEERS_PART_HEADER), 0)
        n == c.count \div PEER_SIZE
    IN  IF ~c.ok \/ c.count % PEER_SIZE # 0 THEN Raised
        ELSE IF n > 0 /\ c.index + PEER_SIZE * n > Len(peersPart) THEN Raised
        ELSE Returned([k \in 1..n |-> PeerAt(peersPart, c.index + PEER_SIZE * (k - 1))])

\* __scanTrackerResponseBinaryModel: the peers part runs from the header to
\* the byte before the last one (a start of -1, the header not found, gives
\* the empty slice). The rest of the dictionary is not modelled.
ScanTrackerResponseBinaryModel(responseBytes) ==
    LET peersPartStartingPosition == Find(responseBytes, PEERS_PART_HEADER)
        peersPart == IF peersPartStartingPosition = -1 THEN <<>>
                     ELSE SubSeq(responseBytes, peersPartStartingPosition + 1,
                                 Len(responseBytes) - 1)
    IN  ComputePeersBinaryModel(peersPart)

\* bdecode on a number that starts at position idx (1-based) and ends with
\* the byte `stop`: its value and the position after `stop`.
RECURSIVE BdecodeNumber(_, _, _, _)
BdecodeNumber(bytes, idx, stop, acc) ==
    IF idx > Len(bytes) THEN [ok |-> FALSE, value |-> 0, next |-> idx]
    ELSE IF bytes[idx] = stop THEN [ok |-> TRUE, value |-> acc, next |-> idx + 1]
    ELSE IF 48 <= bytes[idx] /\ bytes[idx] <= 57
    THEN BdecodeNumber(bytes, idx + 1, stop, acc * 10 + bytes[idx] - 48)
    ELSE [ok |-> FALSE, value |-> 0, next |-> idx]

\* bdecode on the dictionaries d2:ip<len>:<chars>4:porti<port>ee of a list
\* that starts at position idx, up to the list's closing e.
RECURSIVE BdecodePeerDicts(_, _, _)
BdecodePeerDicts(bytes, idx, acc) ==
    IF idx > Len(bytes) THEN [ok |-> FALSE, value |-> <<>>]
    ELSE IF bytes[idx] = 101 THEN [ok |-> TRUE, value |-> acc]
    ELSE IF SubSeq(bytes, idx, idx + 4) # <<100, 50, 58, 105, 112>>
    THEN [ok |-> FALSE, value |-> <<>>]
    ELSE LET len == BdecodeNumber(bytes, idx + 5, 58, 0)
             ip == SubSeq(bytes, len.next, len.next + len.value - 1)
             key == len.next + len.value
             number == BdecodeNumber(bytes, key + 7, 101, 0)
         IN  IF ~len.ok \/ SubSeq(bytes, key, key + 6) # <<52, 58, 112, 111, 114, 116, 105>>
                \/ ~number.ok
             THEN [ok |-> FALSE, value |-> <<>>]
             ELSE BdecodePeerDicts(bytes, number.next + 1,
                                   Append(acc, [ip |-> StrValue(ip), port |-> number.value]))

\* decoded["peers"] of bdecode(responseBytes), for a response whose first
\* key is peers: a list of dictionaries, or a byte string.
BdecodePeers(responseBytes) ==
    LET start == Find(responseBytes, PEERS_PART_HEADER) + Len(PEERS_PART_HEADER) + 1
    IN  IF Find(responseBytes, PEERS_PART_HEADER) = -1 \/ start > Len(responseBytes)
        THEN [ok |-> FALSE, isList |-> FALSE, value |-> <<>>]
        ELSE IF responseBytes[start] = 108
        THEN LET d == BdecodePeerDicts(responseBytes, start + 1, <<>>)
             IN  [ok |-> d.ok, isList |-> TRUE, value |-> d.value]
        ELSE [ok |-> TRUE, isList |-> FALSE, value |-> <<>>]

\* __scanTrackerResponseDictionaryModel: peer["ip"] on the elements of a
\* byte string raises TypeError.
ScanTrackerResponseDictionaryModel(responseBytes) ==
    LET decoded == BdecodePeers(responseBytes)
    IN  IF ~decoded.ok \/ ~decoded.isList THEN Raised
        ELSE Returned([k \in 1..Len(decoded.value) |->
                          NewPeer(decoded.value[k].ip, decoded.value[k].port)])

\* scanTrackerResponse (lines 61-64), the peer list of its result.
ScanTrackerResponse(responseBytes) ==
    IF Find(responseBytes, DICT_MODEL_IDENTIFIER) # -1
    THEN ScanTrackerResponseDictionaryModel(responseBytes)
    ELSE ScanTrackerResponseBinaryModel(responseBytes)

\* A tracker's response to be scanned: its peers and its encoding.
NewScan(groups, model) ==
    [op |-> "scan", pc |-> "start", logical |-> groups, model |-> model,
     responseBytes |-> IF model = "compact" THEN CompactResponse(groups)
                       ELSE DictResponse(groups),
     result |-> Raised]

\* The call scanTrackerResponse(responseBytes).
ScanResponse ==
    /\ call.op = "scan" /\ call.pc = "start"
    /\ call' = [call EXCEPT !.pc = "done",
                            !.result = ScanTrackerResponse(call.responseBytes)]
    /\ UNCHANGED <<schedVars, sessVars>>

TrackerInit ==
    /\ InitSched /\ InitSess /\ pieceCount = NumPieces
    /\ call \in {NewScan(groups, model) :
                     groups \in LogicalPeerLists, model \in {"compact", "dictionary"}}

TrackerNext == ScanResponse

TrackerSpec == TrackerInit /\ [][TrackerNext]_vars

\* ------------------------------------ the messages (domain/message/*.py)
\* NotInterestedMessage.MESSAGE_ID and LENGTH_PREFIX
NOT_INTERESTED_MESSAGE_ID == 3

NOT_INTERESTED_LENGTH_PREFIX == 1

\* BitfieldMessage.MESSAGE_ID and BASE_LENGTH_PREFIX
BITFIELD_MESSAGE_ID == 5

BASE_LENGTH_PREFIX == 1

\* The longest bit sequence a Bitfield message is built from.
MaxBits == 8

BitSequences == UNION {SeqsOfLen({0, 1}, k) : k \in 0..MaxBits}

\* utils.convertIntegerTo4ByteBigEndian
ConvertIntegerTo4ByteBigEndian(n) ==
    <<(n \div 16777216) % 256, (n \div 65536) % 256, (n \div 256) % 256, n % 256>>

\* bitarray.tobytes: the bits packed eight to a byte, the first bit the most
\* significant, the last byte filled up with zeros.
ToBytes(bits) ==
    LET bit(j) == IF j <= Len(bits) THEN bits[j] ELSE 0
    IN  [b \in 1..((Len(bits) + 7) \div 8) |->
            bit(8 * b - 7) * 128 + bit(8 * b - 6) * 64 + bit(8 * b - 5) * 32
            + bit(8 * b - 4) * 16 + bit(8 * b - 3) * 8 + bit(8 * b - 2) * 4
            + bit(8 * b - 1) * 2 + bit(8 * b)]

\* MessageWithLengthAndID.__init__ and getMessageContent: the length prefix
\* as four big-endian bytes, then the id as one byte.
MessageWithLengthAndID(lengthPrefix, messageID) ==
    ConvertIntegerTo4ByteBigEndian(lengthPrefix) \o <<messageID>>

\* NotInterestedMessage(): __init__ and the inherited getMessageContent.
NotInterestedMessage ==
    MessageWithLengthAndID(NOT_INTERESTED_LENGTH_PREFIX, NOT_INTERESTED_MESSAGE_ID)

\* BitfieldMessage(bitfield): __init__ (len of a bitarray is its number of
\* bits) and getMessageContent.
BitfieldMessageContent(bitfield) ==
    MessageWithLengthAndID(BASE_LENGTH_PREFIX + Len(bitfield), BITFIELD_MESSAGE_ID)
        \o ToBytes(bitfield)

\* A message built and about to be encoded.
NewMessage(kind, bitfield) ==
    [op |-> "encode", pc |-> "start", kind |-> kind, bitfield |-> bitfield,
     content |-> <<>>]

\* getMessageContent() of the message.
GetMessageContent ==
    /\ call.op = "encode" /\ call.pc = "start"
    /\ call' = [call EXCEPT
                   !.pc = "done",
                   !.content = IF call.kind = "NotInterested" THEN NotInterestedMessage
                               ELSE BitfieldMessageContent(call.bitfield)]
    /\ UNCHANGED <<schedVars, sessVars>>

MessageInit ==
    /\ InitSched /\ InitSess /\ pieceCount = NumPieces
    /\ call \in {NewMessage("NotInterested", <<>>)}
                \cup {NewMessage("Bitfield", bits) : bits \in BitSequences}

MessageNext == GetMessageContent

MessageSpec == MessageInit /\ [][MessageNext]_vars

\* ------------------------------------------------------------ the claims
\* The specification's eligibility of peer p for piece i: its session is
\* READY, it does not choke the client, the client is interested in it and
\* bit i of its bitfield is set.
Eligible(p, i) ==
    /\ activeConnection[p]
    /\ isChokingMe[p] = FALSE
    /\ amInterestedInIt[p] = TRUE
    /\ i \in availablePieces[p]

\* A task went from idle to suspended in the send of a Request.
Selects(t) == task[t].pc = "idle" /\ task'[t].pc = "request"

\* A task came back from the send of a Request and appended the block.
Appends(t) == task[t].pc = "request" /\ task'[t].pc = "idle"

\* C1 as claimed: in every reachable state no block is in the
\* blocksRequestedFromPeer of two different peers.
C1_NoBlockRequestedFromTwoPeers ==
    \A p \in Peers : \A q \in Peers \ {p} : \A b \in AllBlocks :
        ~(InList(b, blocksRequestedFromPeer[p]) /\ InList(b, blocksRequestedFromPeer[q]))

\* C1 as amended: whenever requestNextBlock selects a block for a peer, that
\* peer's own blocksRequestedFromPeer does not hold the block (the lists of
\* the other peers are not looked at, so they may hold it).
C1_SelectedBlockNotRequestedFromChosenPeer ==
    [][\A t \in Tasks :
          Selects(t) =>
              ~InList(task'[t].block, blocksRequestedFromPeer[task'[t].peer])]_vars

\* A block is selected for one peer while another peer's list holds it.
C1_Witness ==
    \E t \in Tasks :
        /\ task[t].pc = "request"
        /\ \E q \in Peers \ {task[t].peer} :
              InList(task[t].block, blocksRequestedFromPeer[q])

\* C2: in every reachable state no peer's blocksRequestedFromPeer holds
\* the same block twice, also with several requestNextBlock calls in
\* progress at once.
C2_NoDuplicateRequestedBlock ==
    \A p \in Peers :
        \A j \in 1..Len(blocksRequestedFromPeer[p]) :
            \A k \in 1..Len(blocksRequestedFromPeer[p]) :
                j # k => blocksRequestedFromPeer[p][j] # blocksRequestedFromPeer[p][k]

\* C3: every call of cancelRequestsToOtherPeers that has ended sent a Cancel
\* to exactly the peers other than the sender whose list held the block, and
\* left no list holding the block.
C3_CancelReachesEveryOtherPeer == cancelsDone

\* C4: a Request goes only to a peer that, both when the Request is sent and
\* when the block is appended to its list, is eligible for the block's piece.
C4_RequestOnlyToEligiblePeer ==
    [][\A t \in Tasks :
          /\ Selects(t) => Eligible(task'[t].peer, task'[t].block.pieceIndex)
          /\ Appends(t) => Eligible(task[t].peer, task[t].block.pieceIndex)]_vars

\* Some unfinished piece has an eligible peer (any of them) holding a block
\* that is neither complete nor in that peer's list.
SomeEligiblePeerHasWork ==
    \E i \in PieceIndexes : \E p \in Peers : \E k \in 0..(BlockCount(i) - 1) :
        /\ ~isDownloadComplete[i]
        /\ Eligible(p, i)
        /\ ~isComplete[<<i, k>>]
        /\ ~InList(Block(i, k), blocksRequestedFromPeer[p])

\* The same of the first eligible peer of the peer list.
FirstEligiblePeerHasWork ==
    \E i \in PieceIndexes : \E p \in Peers : \E k \in 0..(BlockCount(i) - 1) :
        /\ ~isDownloadComplete[i]
        /\ Eligible(p, i)
        /\ \A q \in 1..(p - 1) : ~Eligible(q, i)
        /\ ~isComplete[<<i, k>>]
        /\ ~InList(Block(i, k), blocksRequestedFromPeer[p])

\* A call in the current state issues a Request, or it ends its sweep with
\* the cursor at (0, 0) and, nothing else having changed, the call after it
\* issues one.
IssuedByNextSweep ==
    LET r == DetermineNextBlockToRequest(currentPieceIndex, currentBlockIndex)
    IN  \/ r.found
        \/ /\ r.pieceIndex = 0 /\ r.blockIndex = 0
           /\ DetermineNextBlockToRequest(0, 0).found

\* C7 as claimed: a call that issues no Request leaves the cursor at (0, 0),
\* and while some eligible peer has work a Request is issued on the next
\* sweep at the latest.
C7_AnyEligiblePeerIsServed ==
    LET r == DetermineNextBlockToRequest(currentPieceIndex, currentBlockIndex)
    IN  /\ ~r.found => r.pieceIndex = 0 /\ r.blockIndex = 0
        /\ SomeEligiblePeerHasWork => IssuedByNextSweep

\* C7 as amended: the same of the first eligible peer of the peer list, the
\* only one the selection asks.
C7_FirstEligiblePeerIsServed ==
    LET r == DetermineNextBlockToRequest(currentPieceIndex, currentBlockIndex)
    IN  /\ ~r.found => r.pieceIndex = 0 /\ r.blockIndex = 0
        /\ FirstEligiblePeerHasWork => IssuedByNextSweep

\* The first eligible peer has work, the sweep from the cursor walks off the
\* end, and the driver is about to call.
C7_Witness ==
    /\ FirstEligiblePeerHasWork
    /\ task[Driver].pc = "idle"
    /\ ~DetermineNextBlockToRequest(currentPieceIndex, currentBlockIndex).found

\* C5: a session that has ended, by failed connects, by a dead connection,
\* by a socket error in __readMessage or by the end of its read loop, has
\* no open socket.
C5_EndedSessionHasClosedItsSocket ==
    \A p \in Peers :
        session[p].pc \in {"notConnected", "returned"} => ~activeConnection[p]

\* C6: a session makes at most three connect attempts; it goes past
\* __attemptToConnectToPeer only with an open connection on which a good
\* 68-byte handshake was received; between attempts, and after the third
\* failed one, nothing is open.
C6_ConnectAttemptsAreBoundedAndClean ==
    \A p \in Peers :
        /\ session[p].attempt <= 3
        /\ session[p].pc \in {"interested", "setInterested"} =>
               session[p].validated /\ activeConnection[p]
        /\ session[p].pc = "connect" => ~activeConnection[p] /\ session[p].attempt < 3
        /\ session[p].pc = "notConnected" => ~activeConnection[p] /\ session[p].attempt = 3

\* A session gave up after three attempts, the last of which had opened a
\* connection.
C6_Witness ==
    \E p \in Peers : \E q \in Peers \ {p} :
        /\ session[p].pc = "notConnected"
        /\ session[p].attempt = 3
        /\ session[q].pc = "interested"
        /\ session[q].attempt = 3

\* A Request fits a torrent of n pieces: its length is at most 2^14 and it
\* ends inside its piece.
RequestFits(m, n) ==
    /\ m.length <= 16384
    /\ m.pieceIndex < n
    /\ m.beginOffset + m.length <= pieceLengthOf(n, m.pieceIndex)

\* C8: every Request sent, by __requestPiece as well, has length at most
\* 2^14 and begin + length at most the length of its piece.
C8_EveryRequestFitsItsPiece ==
    /\ \A t \in Tasks : task[t].pc = "request" => RequestFits(task[t].block, pieceCount)
    /\ \A p \in Peers :
           session[p].request # NoRequest => RequestFits(session[p].request, pieceCount)

\* C9: no session is ended by what happened in another session.
C9_NoSessionEndedBySibling ==
    \A p \in Peers : session[p].pc # "cancelled"

\* C10: on a connection nothing is sent and no frame is read before a good
\* handshake response; the first message sent after it is Interested; once
\* Interested is sent the flag is set before the session does anything else.
C10_InterestedFirstAfterHandshake ==
    \A p \in Peers :
        /\ ~session[p].early
        /\ session[p].sent \in {"none", "Interested"}
        /\ session[p].pc \in {"read", "requestPiece"} =>
               amInterestedInIt[p] /\ session[p].sent = "Interested"
        /\ amInterestedInIt[p] => session[p].sent = "Interested"
        /\ session[p].request # NoRequest => session[p].sent = "Interested"

\* A session sent Interested, set the flag, and later sent a Request.
C10_Witness ==
    \E p \in Peers :
        /\ session[p].pc = "read"
        /\ amInterestedInIt[p]
        /\ session[p].request # NoRequest

\* The concatenation of the chunks, in order.
RECURSIVE Flatten(_)
Flatten(chunks) ==
    IF chunks = <<>> THEN <<>>
    ELSE Flatten(SubSeq(chunks, 1, Len(chunks) - 1)) \o chunks[Len(chunks)]

\* The number of empty chunks at the end of chunks.
RECURSIVE TrailingEmpty(_)
TrailingEmpty(chunks) ==
    IF chunks = <<>> \/ chunks[Len(chunks)] # <<>> THEN 0
    ELSE 1 + TrailingEmpty(SubSeq(chunks, 1, Len(chunks) - 1))

\* After these reads the helper has N bytes or three empty reads in a row.
ReadIsOver(chunks, N) ==
    Len(Flatten(chunks)) >= N \/ TrailingEmpty(chunks) >= 3

\* C11: __attemptToReadBytes(reader, N) returns at most N bytes, the chunks
\* read in order; it returns fewer than N bytes only after three empty
\* reads in a row, a non-empty read setting the count of empty reads back
\* to zero; it reads nothing more once it has N bytes or three empty reads
\* in a row, so that it stops within 3 * N + 3 reads.
C11_BoundedReadReturnsWhatWasRead ==
    call.op = "read" =>
        /\ Len(call.payload) <= call.byteCount
        /\ call.payload = Flatten(call.chunks)
        /\ call.consecutiveEmptyMessages = TrailingEmpty(call.chunks)
        /\ call.pc = "done" => ReadIsOver(call.chunks, call.byteCount)
        /\ call.pc = "done" /\ Len(call.payload) < call.byteCount =>
               TrailingEmpty(call.chunks) = 3
        /\ \A j \in 0..(Len(call.chunks) - 1) :
               ~ReadIsOver(SubSeq(call.chunks, 1, j), call.byteCount)
        /\ Len(call.chunks) <= 3 * call.byteCount + 3

\* The helper returned short, after an empty read was followed by a
\* non-empty one.
C11_Witness ==
    /\ call.op = "read" /\ call.pc = "done"
    /\ 0 < Len(call.payload) /\ Len(call.payload) < call.byteCount
    /\ \E j \in 1..(Len(call.chunks) - 1) :
           call.chunks[j] = <<>> /\ call.chunks[j + 1] # <<>>

\* The value of bytes from..to (1-based) of a group, big-endian.
RECURSIVE BigEndian(_, _, _)
BigEndian(g, from, to) ==
    IF from > to THEN 0 ELSE BigEndian(g, from, to - 1) * 256 + g[to]

\* C12: for a compact response of n peers, whatever their bytes,
\* scanTrackerResponse returns n peers in input order, peer k with the IP
\* of the big-endian bytes 6k..6k+3 and the port of bytes 6k+4..6k+5.
C12_CompactResponseDecoded ==
    call.op = "scan" /\ call.pc = "done" /\ call.model = "compact" =>
        /\ call.result.ok
        /\ Len(call.result.peers) = Len(call.logical)
        /\ \A k \in 1..Len(call.logical) :
               /\ k <= Len(call.result.peers)
               /\ call.result.peers[k].IP.type = "int"
               /\ call.result.peers[k].IP.value = BigEndian(call.logical[k], 1, 4)
               /\ call.result.peers[k].port = BigEndian(call.logical[k], 5, 6)

\* Two scan results are equal peer lists.
EqualPeerLists(r1, r2) ==
    /\ r1.ok /\ r2.ok
    /\ Len(r1.peers) = Len(r2.peers)
    /\ \A k \in 1..Len(r1.peers) :
           k <= Len(r2.peers) /\ PeerValueEq(r1.peers[k], r2.peers[k])

\* C13: the dictionary-model response and the compact response of the same
\* peers are decoded to equal peer lists.
C13_BothEncodingsGiveEqualLists ==
    call.op = "scan" /\ call.pc = "done" /\ call.model = "dictionary" =>
        EqualPeerLists(call.result, ScanTrackerResponse(CompactResponse(call.logical)))

\* The parts of an encoded message: the value of its four prefix bytes, its
\* id byte, and the bytes after the id.
PrefixValue(content) == BigEndian(content, 1, 4)

MessageIdOf(content) == content[5]

PayloadOf(content) == SubSeq(content, 6, Len(content))

\* C14: the length prefix of an encoded message is 1 plus the number of
\* payload bytes after the id; NotInterested has prefix 1, id 3 and no
\* payload; a Bitfield of k bits has id 5, ceil(k/8) payload bytes and
\* prefix 1 + ceil(k/8).
C14_LengthPrefixCountsIdAndPayload ==
    call.op = "encode" /\ call.pc = "done" =>
        /\ Len(call.content) >= 5
        /\ PrefixValue(call.content) = 1 + Len(PayloadOf(call.content))
        /\ call.kind = "NotInterested" =>
               /\ PrefixValue(call.content) = 1
               /\ MessageIdOf(call.content) = 3
               /\ PayloadOf(call.content) = <<>>
        /\ call.kind = "Bitfield" =>
               /\ MessageIdOf(call.content) = 5
               /\ Len(PayloadOf(call.content)) = (Len(call.bitfield) + 7) \div 8
               /\ PrefixValue(call.content) = 1 + (Len(call.bitfield) + 7) \div 8

\* C15: a pass of the read loop that meets a frame the decoder raises on
\* closes the socket and ends the session of that peer.
C15_DecoderErrorEndsTheConnection ==
    [][\A p \in Peers :
          /\ ReadMessage(p, "undecodable")
          /\ session[p].iteration < READ_LOOP_ITERATIONS
          /\ activeConnection[p]
          => session'[p].pc \in Ended /\ ~activeConnection'[p]]_vars

C17_NoStepInsideSelectionOrCancellation ==
    [][\A t \in Tasks :
          task[t].pc # "idle" /\ task'[t] = task[t] =>
              UNCHANGED <<currentPieceIndex, currentBlockIndex,
                          blocksRequestedFromPeer, isChokingMe, amInterestedInIt,
                          activeConnection, availablePieces>>]_vars

\* The first eligible peer of the peer list for piece i, if any.
FirstEligible(i) ==
    IF \E p \in Peers : Eligible(p, i)
    THEN CHOOSE p \in Peers : Eligible(p, i) /\ \A q \in 1..(p - 1) : ~Eligible(q, i)
    ELSE None

\* The blocks a selection from cursor (pc, bc) may return: of a piece from
\* pc on that is not complete and has an eligible peer, at a position from
\* the block cursor on (from 0 in the pieces after pc), not complete and not
\* in the list of the piece's first eligible peer.
Candidates(pc, bc) ==
    {id \in AllBlockIds :
        /\ id[1] >= pc
        /\ id[2] >= (IF id[1] = pc THEN bc ELSE 0)
        /\ ~isDownloadComplete[id[1]]
        /\ FirstEligible(id[1]) # None
        /\ ~isComplete[id]
        /\ ~InList(Block(id[1], id[2]), blocksRequestedFromPeer[FirstEligible(id[1])])}

\* The first of a set of block ids: lowest piece, then lowest block.
FirstOf(ids) ==
    CHOOSE id \in ids :
        \A other \in ids :
            id[1] < other[1] \/ (id[1] = other[1] /\ id[2] <= other[2])

C19_RequestNextBlockFrame ==
    [][\A t \in Tasks :
          /\ Selects(t) \/ (task[t].pc = "idle" /\ RequestNextBlock(t)) =>
                 /\ UNCHANGED <<blocksRequestedFromPeer, isChokingMe, amInterestedInIt,
                                activeConnection, availablePieces, isComplete,
                                isDownloadComplete, downloadedPieces>>
                 /\ ~Selects(t) => task' = task
          /\ Appends(t) =>
                 /\ blocksRequestedFromPeer'[task[t].peer] =
                        Append(blocksRequestedFromPeer[task[t].peer], task[t].block)
                 /\ \A q \in Peers \ {task[t].peer} :
                        blocksRequestedFromPeer'[q] = blocksRequestedFromPeer[q]
                 /\ UNCHANGED <<currentPieceIndex, currentBlockIndex, isChokingMe,
                                amInterestedInIt, activeConnection, availablePieces,
                                isComplete, isDownloadComplete, downloadedPieces>>]_vars

\* Calls have appended a block to each peer's list, and a call made now
\* selects nothing.
C19_Witness ==
    /\ task[Driver].pc = "idle"
    /\ \A p \in Peers : Len(blocksRequestedFromPeer[p]) > 0
    /\ currentPieceIndex = 0 /\ currentBlockIndex = 0
    /\ ~DetermineNextBlockToRequest(0, 0).found

\* The entries of a list of requested blocks that are not for block
\* (pieceIndex, beginOffset), in the list's order.
RECURSIVE OtherEntries(_, _, _)
OtherEntries(list, pieceIndex, beginOffset) ==
    IF list = <<>> THEN <<>>
    ELSE IF Head(list).pieceIndex = pieceIndex /\ Head(list).beginOffset = beginOffset
    THEN OtherEntries(Tail(list), pieceIndex, beginOffset)
    ELSE <<Head(list)>> \o OtherEntries(Tail(list), pieceIndex, beginOffset)

\* C20: when cancelRequestsToOtherPeers goes on after the send of a Cancel,
\* the position it removes is inside the peer's list and holds an entry for
\* the call's (pieceIndex, beginOffset); the entries for other blocks stay
\* in every list, in their order; whatever ran while the call was
\* suspended.
C20_CancelRemovesOnlyMatchingEntries ==
    [][\A t \in Peers :
          task[t].pc = "cancel" /\ task'[t] # task[t] =>
              LET c == task[t]
                  list == blocksRequestedFromPeer[c.otherPeer]
              IN  /\ c.blockIndex <= Len(list)
                  /\ list[c.blockIndex].pieceIndex = c.pieceIndex
                  /\ list[c.blockIndex].beginOffset = c.beginOffset
                  /\ \A p \in Peers :
                         OtherEntries(blocksRequestedFromPeer'[p], c.pieceIndex, c.beginOffset)
                         = OtherEntries(blocksRequestedFromPeer[p], c.pieceIndex, c.beginOffset)]_vars
====
